---- MODULE Spec2Model ----
(***************************************************************************)
(* Model of tinky-unordered-list: the depth-indexed marker resolution of   *)
(* UnorderedList and the two React contexts (depth, marker) that carry the *)
(* nesting level and the resolved marker down the render tree.             *)
(*                                                                         *)
(* A render pass is a depth-first walk of the element tree.  `stack' is    *)
(* the path of components whose children are being rendered, outermost     *)
(* first; stack[1] is the host root, which provides nothing.  A component  *)
(* function runs when its frame is pushed (React renders a parent before   *)
(* its children) and the frame is popped when its subtree is finished.     *)
(*                                                                         *)
(* Spec renders trees with nested ThemeProvider elements and hand-made     *)
(* providers of both contexts over one config of each kind; SpecMarkers    *)
(* renders trees under one application-wide ThemeProvider over every       *)
(* config value.  A third specification, SpecRerender, follows one mounted *)
(* UnorderedList through its re-renders: `fiber' holds the cells of its    *)
(* two useMemo hooks, `evals' the last two evaluations of the component    *)
(* function.                                                               *)
(***************************************************************************)
EXTENDS Integers, Sequences, FiniteSets

VARIABLES stack, fiber, evals

vars == <<stack, fiber, evals>>

(***************************************************************************)
(* Bounds of the model.                                                    *)
(***************************************************************************)
MaxDepth == 5           \* components open at once below the host root
MaxThemeProviders == 2  \* ThemeProvider elements open at once
MaxDepthProviders == 1  \* hand-made UnorderedListContext.Provider elements open at once
MaxMarkerProviders == 1 \* hand-made UnorderedListItemContext.Provider elements open at once
MaxProviders == 2       \* provider elements of all three kinds open at once
MaxRenderDepth == 2     \* largest ambient depth a re-rendered list is given

(***************************************************************************)
(* JavaScript values.  t is the value's runtime shape, s the payload of a  *)
(* string (or the printed form of a number), a the elements of an array.   *)
(***************************************************************************)
Str(s) == [t |-> "string", s |-> s, a |-> <<>>]
Num(s) == [t |-> "number", s |-> s, a |-> <<>>]
Undefined == [t |-> "undefined", s |-> "", a |-> <<>>]
Null == [t |-> "null", s |-> "", a |-> <<>>]
Obj == [t |-> "object", s |-> "", a |-> <<>>]
Arr(seq) == [t |-> "array", s |-> "", a |-> seq]

\* typeof v === "string"
IsString(v) == v.t = "string"

\* Array.isArray(v)
IsArray(v) == v.t = "array"

\* the left operand of ?? is replaced when it is null or undefined
Nullish(v) == v.t \in {"undefined", "null"}

\* Variant of ?? that replaces every falsy left operand, as || does.
Coalesce_falsy(x, y) == IF Nullish(x) \/ x = Str("") THEN y ELSE x

\* x ?? y
Coalesce(x, y) == IF Nullish(x) THEN y ELSE x

\* arr[i]: an index outside 0..length-1 reads undefined
Index(arr, i) == IF 0 <= i /\ i < Len(arr.a) THEN arr.a[i + 1] ELSE Undefined

\* arr.at(i): a negative i counts from the end
At(arr, i) ==
    LET k == IF i < 0 THEN Len(arr.a) + i ELSE i
    IN  IF 0 <= k /\ k < Len(arr.a) THEN arr.a[k + 1] ELSE Undefined

\* figures.line
defaultMarker == Str("-")

(***************************************************************************)
(* Theme configuration of the UnorderedList component, as handed over by   *)
(* useComponentTheme: a function returning { marker }, a plain object      *)
(* { marker }, or nothing at all.  A function is called with the list's    *)
(* props { children }: it returns alt for a list without children and      *)
(* marker otherwise.  ref tells apart objects of equal content (Object.is).*)
(***************************************************************************)
\* () => ({ marker: m })
ConfigFn(m) == [t |-> "function", marker |-> m, alt |-> m, ref |-> 0]

\* { marker: m }
ConfigObj(m) == [t |-> "object", marker |-> m, alt |-> m, ref |-> 0]

ConfigUndefined ==
    [t |-> "undefined", marker |-> Undefined, alt |-> Undefined, ref |-> 0]

\* (props) => ({ marker: props.children == null ? n : m })
ConfigOfProps(m, n) == [t |-> "function", marker |-> m, alt |-> n, ref |-> 0]

\* the object c, allocated as object number n
WithRef(c, n) == [c EXCEPT !.ref = n]

\* props of an UnorderedList: { children }, absent or given
Props == { [children |-> "undefined"], [children |-> "nodes"] }

\* Variant of the default theme that configures a bullet of its own.
unorderedListThemeConfig_bullet == ConfigFn(Str("*"))

\* unorderedListTheme.config
unorderedListThemeConfig == ConfigFn(defaultMarker)

\* Sequences of strings used as per-depth markers.
StringSeqs == { <<Str("*")>>, <<Str("*"), Str("+")>>,
                <<Str("*"), Str("+"), Str("o")>>, <<Str(""), Str("+")>> }

\* Marker values of the declared type: string | string[].
TypedMarkers ==
    {Str("*"), Str(""), Arr(<<>>)} \cup { Arr(q) : q \in StringSeqs }

\* A config without a marker: resolvedConfig?.marker reads undefined.
AbsentMarkers == {Undefined}

\* Marker values outside the declared type.
MalformedMarkers ==
    {Null, Num("42"), Obj, Arr(<<Num("42")>>), Arr(<<Undefined, Str("+")>>),
     Arr(<<Null, Undefined>>)}

Markers == TypedMarkers \cup AbsentMarkers \cup MalformedMarkers

\* Marker values also supplied through a plain-object config.
ObjectMarkers == {Undefined, Str("*"), Arr(<<Str("*"), Str("+")>>), Num("42")}

Configs ==
    {ConfigUndefined} \cup { ConfigFn(m) : m \in Markers }
                      \cup { ConfigObj(m) : m \in ObjectMarkers }

\* Configs of the ThemeProvider elements nested in a tree of lists: one of
\* each kind (string, sequences, empty sequence, absent, malformed).
TreeConfigs ==
    { ConfigFn(Str("*")), ConfigFn(Arr(<<Str("*"), Str("+")>>)),
      ConfigFn(Arr(<<Str("*"), Str("+"), Str("o")>>)), ConfigFn(Arr(<<>>)),
      ConfigUndefined, ConfigFn(Num("42")) }

\* Depth values a hand-made UnorderedListContext.Provider supplies.
InjectedDepths == {-1, 2}

\* Marker values a hand-made UnorderedListItemContext.Provider supplies.
InjectedMarkers == {Str("#")}

(***************************************************************************)
(* Frames of the render stack.                                             *)
(*   kind    "root" | "list" | "item" | "theme" | "depth" | "marker"       *)
(*   depth   list: the ambient depth it read                               *)
(*   next    list, depth provider: the depth value it provides             *)
(*   config  list: the config it read; theme provider: the one it provides *)
(*   marker  list, marker provider: the marker it provides;                *)
(*           item: the marker it rendered                                  *)
(*   items   list, marker provider, root: markers rendered so far by the   *)
(*           items that read their marker from this frame                  *)
(*   nested  list, depth provider, root: depths at which the lists that    *)
(*           read their ambient depth from this frame resolved;            *)
(*           item: depths at which its direct child lists resolved         *)
(*   other   list: some list nested in it has provided a different marker; *)
(*           item: it rendered after such a nested list was finished       *)
(*   later   item: an earlier item of the same list had rendered before it *)
(*           list: an earlier list had rendered directly inside the item   *)
(*           that is its parent                                            *)
(***************************************************************************)
Frame(kind, depth, next, config, marker, other, later) ==
    [kind |-> kind, depth |-> depth, next |-> next, config |-> config,
     marker |-> marker, items |-> {}, nested |-> {}, other |-> other,
     later |-> later]

RootFrame == Frame("root", 0, 0, ConfigUndefined, Undefined, FALSE, FALSE)

\* number of frames of the given kind on the stack
Count(s, kind) == Cardinality({ i \in 1..Len(s) : s[i].kind = kind })

\* number of provider elements on the stack
Providers(s) == Count(s, "theme") + Count(s, "depth") + Count(s, "marker")

\* index of the nearest enclosing list frame, or 1 (the host root)
RECURSIVE NearestList(_, _)
NearestList(s, i) ==
    IF i <= 1 THEN 1
    ELSE IF s[i].kind = "list" THEN i
    ELSE NearestList(s, i - 1)

\* index of the nearest enclosing frame that provides a marker, or 1
RECURSIVE NearestMarker(_, _)
NearestMarker(s, i) ==
    IF i <= 1 THEN 1
    ELSE IF s[i].kind \in {"list", "marker"} THEN i
    ELSE NearestMarker(s, i - 1)

\* index of the nearest enclosing frame that provides a depth, or 1
RECURSIVE NearestDepth(_, _)
NearestDepth(s, i) ==
    IF i <= 1 THEN 1
    ELSE IF s[i].kind \in {"list", "depth"} THEN i
    ELSE NearestDepth(s, i - 1)

(***************************************************************************)
(* useContext: the value of the nearest enclosing provider, or the default *)
(* given to createContext when there is none.                              *)
(***************************************************************************)
\* Variants of the contexts' default values.
UnorderedListContext_one == [depth |-> 1]

UnorderedListItemContext_none == [marker |-> Undefined]

\* createContext<UnorderedListContextProps>({ depth: 0 })
UnorderedListContext == [depth |-> 0]

\* createContext<UnorderedListItemContextProps>({ marker: defaultMarker })
UnorderedListItemContext == [marker |-> defaultMarker]

\* Variants of useContext that miss the nearest provider.
useContextDepth_default(s, i) == UnorderedListContext

useContextMarker_outermost(s, i) ==
    LET L == { k \in 1..i : s[k].kind = "list" }
    IN  IF L = {} THEN UnorderedListItemContext
        ELSE [marker |-> s[CHOOSE k \in L : \A l \in L : k <= l].marker]

\* Variant in which depth and marker live in one context value, so that a
\* hand-made depth provider hides the marker of the enclosing list.
useContextMarker_shared(s, i) ==
    LET L == { k \in 1..i : s[k].kind \in {"list", "depth"} }
        n == CHOOSE k \in L : \A l \in L : l <= k
    IN  IF L = {} \/ s[n].kind = "depth" THEN UnorderedListItemContext
        ELSE [marker |-> s[n].marker]

\* Variant of useContext that takes the nesting level for the depth and so
\* overlooks the hand-made providers.
useContextDepth_listsOnly(s, i) ==
    [depth |-> Cardinality({ k \in 1..i : s[k].kind = "list" })]

\* Variant in which an item adds a level of its own.
RECURSIVE useContextDepth_items(_, _)
useContextDepth_items(s, i) ==
    IF i < 1 THEN UnorderedListContext
    ELSE IF s[i].kind \in {"list", "depth"} THEN [depth |-> s[i].next]
    ELSE IF s[i].kind = "item"
         THEN [depth |-> useContextDepth_items(s, i - 1).depth + 1]
    ELSE useContextDepth_items(s, i - 1)

\* Variant in which a marker reaches the direct children of a list only.
useContextMarker_direct(s, i) ==
    IF i >= 1 /\ s[i].kind \in {"list", "marker"} THEN [marker |-> s[i].marker]
    ELSE UnorderedListItemContext

RECURSIVE useContextDepth(_, _)
useContextDepth(s, i) ==
    IF i < 1 THEN UnorderedListContext
    ELSE IF s[i].kind \in {"list", "depth"} THEN [depth |-> s[i].next]
    ELSE useContextDepth(s, i - 1)

RECURSIVE useContextMarker(_, _)
useContextMarker(s, i) ==
    IF i < 1 THEN UnorderedListItemContext
    ELSE IF s[i].kind \in {"list", "marker"} THEN [marker |-> s[i].marker]
    ELSE useContextMarker(s, i - 1)

\* useComponentTheme("UnorderedList", unorderedListTheme, props).config:
\* the config of the nearest ThemeProvider, or the default theme's.
\* Variant that ignores the ThemeProvider elements on the path.
useComponentTheme_default(s, i) == [config |-> unorderedListThemeConfig]

RECURSIVE useComponentTheme(_, _)
useComponentTheme(s, i) ==
    IF i < 1 THEN [config |-> unorderedListThemeConfig]
    ELSE IF s[i].kind = "theme" THEN [config |-> s[i].config]
    ELSE useComponentTheme(s, i - 1)

(***************************************************************************)
(* UnorderedList                                                           *)
(***************************************************************************)
\* Variant of listContext that hands its own depth on.
listContext_noIncrement(depth) == [depth |-> depth]

\* listContext = { depth: depth + 1 }
listContext(depth) == [depth |-> depth + 1]

\* typeof config === "function" ? config(props) : config, then ?.marker
resolvedMarker(config, props) ==
    IF config.t = "undefined" THEN Undefined
    ELSE IF config.t = "function"
         THEN IF props.children = "undefined" THEN config.alt ELSE config.marker
    ELSE config.marker

\* Variants of listItemContext with one slip each.
listItemContext_wrap(config, props, depth) ==
    LET marker == resolvedMarker(config, props)
    IN  IF IsString(marker) THEN [marker |-> marker]
        ELSE IF IsArray(marker)
             THEN [marker |-> Coalesce(Index(marker, depth),
                      Coalesce(IF Len(marker.a) > 0 /\ depth >= 0
                               THEN Index(marker, depth % Len(marker.a))
                               ELSE At(marker, -1), defaultMarker))]
        ELSE [marker |-> defaultMarker]

listItemContext_lastOnly(config, props, depth) ==
    LET marker == resolvedMarker(config, props)
    IN  IF IsString(marker) THEN [marker |-> marker]
        ELSE IF IsArray(marker)
             THEN [marker |-> Coalesce(At(marker, -1), defaultMarker)]
        ELSE [marker |-> defaultMarker]

listItemContext_noString(config, props, depth) ==
    LET marker == resolvedMarker(config, props)
    IN  IF IsArray(marker)
        THEN [marker |-> Coalesce(Index(marker, depth),
                                  Coalesce(At(marker, -1), defaultMarker))]
        ELSE [marker |-> defaultMarker]

listItemContext_noDefault(config, props, depth) ==
    LET marker == resolvedMarker(config, props)
    IN  IF IsString(marker) THEN [marker |-> marker]
        ELSE IF IsArray(marker)
             THEN [marker |-> Coalesce(Index(marker, depth), At(marker, -1))]
        ELSE [marker |-> defaultMarker]

listItemContext_nextDepth(config, props, depth) ==
    LET marker == resolvedMarker(config, props)
    IN  IF IsString(marker) THEN [marker |-> marker]
        ELSE IF IsArray(marker)
             THEN [marker |-> Coalesce(Index(marker, depth + 1),
                                       Coalesce(At(marker, -1), defaultMarker))]
        ELSE [marker |-> defaultMarker]

listItemContext_clampLow(config, props, depth) ==
    LET marker == resolvedMarker(config, props)
    IN  IF IsString(marker) THEN [marker |-> marker]
        ELSE IF IsArray(marker)
             THEN [marker |-> Coalesce(Index(marker, IF depth < 0 THEN 0 ELSE depth),
                                       Coalesce(At(marker, -1), defaultMarker))]
        ELSE [marker |-> defaultMarker]

listItemContext_truthy(config, props, depth) ==
    LET marker == resolvedMarker(config, props)
    IN  IF IsString(marker) /\ marker.s # "" THEN [marker |-> marker]
        ELSE IF IsArray(marker)
             THEN [marker |-> Coalesce(Index(marker, depth),
                                       Coalesce(At(marker, -1), defaultMarker))]
        ELSE [marker |-> defaultMarker]

\* listItemContext = { marker: ... }
listItemContext(config, props, depth) ==
    LET marker == resolvedMarker(config, props)
    IN  IF IsString(marker) THEN [marker |-> marker]
        ELSE IF IsArray(marker)
             THEN [marker |-> Coalesce(Index(marker, depth),
                                       Coalesce(At(marker, -1), defaultMarker))]
        ELSE [marker |-> defaultMarker]

(***************************************************************************)
(* useMemo: a cell keeps the value computed last and the dependencies it   *)
(* was computed for; the value is computed again when the cell is empty or *)
(* a dependency differs.                                                   *)
(***************************************************************************)
NoCell == [set |-> FALSE, deps |-> <<>>, value |-> [depth |-> 0]]

useMemo(cell, value, deps) ==
    IF cell.set /\ cell.deps = deps THEN cell
    ELSE [set |-> TRUE, deps |-> deps, value |-> value]

\* the hooks of a list that has not rendered yet
NoHooks == [listContext |-> NoCell, listItemContext |-> NoCell]

\* Variant of the component function in which a list with a single-string
\* marker hands its own depth on.
UnorderedList_stringStops(hooks, depth, config, props) ==
    LET own == IsString(resolvedMarker(config, props))
        lc == useMemo(hooks.listContext,
                      IF own THEN [depth |-> depth] ELSE listContext(depth),
                      <<depth>>)
        lic == useMemo(hooks.listItemContext,
                       listItemContext(config, props, depth), <<config, depth>>)
    IN  [listContext |-> lc.value, listItemContext |-> lic.value,
         hooks |-> [listContext |-> lc, listItemContext |-> lic]]

\* the component function: what it provides and the cells it leaves
UnorderedList(hooks, depth, config, props) ==
    LET lc == useMemo(hooks.listContext, listContext(depth), <<depth>>)
        lic == useMemo(hooks.listItemContext,
                       listItemContext(config, props, depth), <<config, depth>>)
    IN  [listContext |-> lc.value, listItemContext |-> lic.value,
         hooks |-> [listContext |-> lc, listItemContext |-> lic]]

\* Variant of Provide that keeps the marker in one shared place, so that
\* the enclosing lists see it too.
Provide_global(s, f) ==
    Append([k \in 1..Len(s) |->
               IF s[k].kind = "list" THEN [s[k] EXCEPT !.marker = f.marker]
               ELSE s[k]], f)

\* Variant of Provide that keeps the depth in one shared place, so that
\* the enclosing providers see the increment too.
Provide_depthGlobal(s, f) ==
    Append([k \in 1..Len(s) |->
               IF s[k].kind \in {"list", "depth"} THEN [s[k] EXCEPT !.next = f.next]
               ELSE s[k]], f)

\* <Context.Provider value=...>: the value is visible to the subtree only
Provide(s, f) == Append(s, f)

\* the frame of the nearest enclosing provider records what a child observed
Observe(s, j, f) == [s EXCEPT ![j] = f]

RenderUnorderedList ==
    /\ Len(stack) <= MaxDepth
    /\ UNCHANGED <<fiber, evals>>
    /\ \E props \in Props :
       LET depth == useContextDepth(stack, Len(stack)).depth
           config == useComponentTheme(stack, Len(stack)).config
           out == UnorderedList(NoHooks, depth, config, props)
           lic == out.listItemContext
           lc == out.listContext
           j == NearestDepth(stack, Len(stack))
           p == Len(stack)
           up == [stack[j] EXCEPT !.nested = @ \cup {depth}]
           seen == Observe(stack, j, up)
           upp == IF seen[p].kind = "item"
                  THEN [seen[p] EXCEPT !.nested = @ \cup {depth}]
                  ELSE seen[p]
       IN  stack' = Provide(Observe(seen, p, upp),
                            Frame("list", depth, lc.depth, config, lic.marker,
                                  FALSE,
                                  stack[p].kind = "item" /\ stack[p].nested # {}))

(***************************************************************************)
(* UnorderedListItem                                                       *)
(***************************************************************************)
RenderUnorderedListItem ==
    /\ Len(stack) <= MaxDepth
    /\ UNCHANGED <<fiber, evals>>
    /\ LET marker == useContextMarker(stack, Len(stack)).marker
           j == NearestMarker(stack, Len(stack))
           up == [stack[j] EXCEPT !.items = @ \cup {marker}]
       IN  stack' = Append(Observe(stack, j, up),
                           Frame("item", 0, 0, ConfigUndefined, marker,
                                 stack[j].other, stack[j].items # {}))

(***************************************************************************)
(* Elements of the host framework that surround lists.                     *)
(***************************************************************************)
\* <ThemeProvider theme={extendTheme(defaultTheme, {components: {UnorderedList: {config}}})}>
RenderThemeProvider(config) ==
    /\ Len(stack) <= MaxDepth
    /\ Count(stack, "theme") < MaxThemeProviders
    /\ Providers(stack) < MaxProviders
    /\ UNCHANGED <<fiber, evals>>
    /\ stack' = Append(stack, Frame("theme", 0, 0, config, Undefined, FALSE, FALSE))

\* <ThemeProvider> around the whole application
RenderRootThemeProvider(config) ==
    /\ Len(stack) = 1
    /\ RenderThemeProvider(config)

\* <UnorderedListContext.Provider value={{ depth }}>
RenderDepthProvider(depth) ==
    /\ Len(stack) <= MaxDepth
    /\ Count(stack, "depth") < MaxDepthProviders
    /\ Providers(stack) < MaxProviders
    /\ UNCHANGED <<fiber, evals>>
    /\ stack' = Append(stack, Frame("depth", 0, depth, ConfigUndefined, Undefined,
                               FALSE, FALSE))

\* <UnorderedListItemContext.Provider value={{ marker }}>
RenderMarkerProvider(marker) ==
    /\ Len(stack) <= MaxDepth
    /\ Count(stack, "marker") < MaxMarkerProviders
    /\ Providers(stack) < MaxProviders
    /\ UNCHANGED <<fiber, evals>>
    /\ stack' = Append(stack, Frame("marker", 0, 0, ConfigUndefined, marker,
                               FALSE, FALSE))

\* The subtree of the innermost open component is finished.
Finish ==
    /\ Len(stack) > 1
    /\ UNCHANGED <<fiber, evals>>
    /\ LET top == stack[Len(stack)]
           rest == SubSeq(stack, 1, Len(stack) - 1)
           j == NearestList(rest, Len(rest))
       IN  stack' = IF top.kind = "list" /\ rest[j].kind = "list"
                       /\ top.marker # rest[j].marker
                    THEN [rest EXCEPT ![j].other = TRUE]
                    ELSE rest

(***************************************************************************)
(* Re-renders of one UnorderedList.  The host framework calls the          *)
(* component function again with the ambient depth, the theme's config     *)
(* and the props of the moment; the hooks keep their cells in between.     *)
(***************************************************************************)
\* Theme configs handed to a re-rendered list: objects 2 and 3 are two
\* functions that return the same sequence.
RenderConfigs ==
    { WithRef(ConfigOfProps(Str("*"), Str("+")), 1),
      WithRef(ConfigFn(Arr(<<Str("*"), Str("+")>>)), 2),
      WithRef(ConfigFn(Arr(<<Str("*"), Str("+")>>)), 3),
      WithRef(ConfigObj(Str("+")), 4) }

RenderDepths == 0..MaxRenderDepth

Unmounted == [mounted |-> FALSE, hooks |-> NoHooks]

\* one run of the component function, as the host framework sees it
Evaluation(depth, config, props, out, mount) ==
    [depth |-> depth, config |-> config, props |-> props,
     marker |-> out.listItemContext.marker, next |-> out.listContext.depth,
     mount |-> mount]

\* the last two evaluations
Record(e) == IF evals = <<>> THEN <<e>> ELSE <<evals[Len(evals)], e>>

Mount(depth, config, props) ==
    /\ ~fiber.mounted
    /\ LET out == UnorderedList(NoHooks, depth, config, props)
       IN  /\ fiber' = [mounted |-> TRUE, hooks |-> out.hooks]
           /\ evals' = Record(Evaluation(depth, config, props, out, TRUE))
    /\ UNCHANGED stack

Rerender(depth, config, props) ==
    /\ fiber.mounted
    /\ LET out == UnorderedList(fiber.hooks, depth, config, props)
       IN  /\ fiber' = [mounted |-> TRUE, hooks |-> out.hooks]
           /\ evals' = Record(Evaluation(depth, config, props, out, FALSE))
    /\ UNCHANGED stack

Unmount ==
    /\ fiber.mounted
    /\ fiber' = Unmounted
    /\ UNCHANGED <<stack, evals>>

Init == stack = <<RootFrame>> /\ fiber = Unmounted /\ evals = <<>>

NextRerender ==
    \/ \E depth \in RenderDepths, config \in RenderConfigs, props \in Props :
          Mount(depth, config, props)
    \/ \E depth \in RenderDepths, config \in RenderConfigs, props \in Props :
          Rerender(depth, config, props)
    \/ Unmount

SpecRerender == Init /\ [][NextRerender]_vars

\* Trees under one application-wide theme, over every config value.
NextMarkers ==
    \/ RenderUnorderedList
    \/ RenderUnorderedListItem
    \/ \E config \in Configs : RenderRootThemeProvider(config)
    \/ \E depth \in InjectedDepths : RenderDepthProvider(depth)
    \/ Finish

SpecMarkers == Init /\ [][NextMarkers]_vars

Next ==
    \/ RenderUnorderedList
    \/ RenderUnorderedListItem
    \/ \E config \in TreeConfigs : RenderThemeProvider(config)
    \/ \E depth \in InjectedDepths : RenderDepthProvider(depth)
    \/ \E marker \in InjectedMarkers : RenderMarkerProvider(marker)
    \/ Finish

Spec == Init /\ [][Next]_vars

TypeOK == Len(stack) >= 1 /\ stack[1].kind = "root"

(***************************************************************************)
(* Vocabulary of the properties.                                           *)
(***************************************************************************)
Lists == { i \in 1..Len(stack) : stack[i].kind = "list" }
Items == { i \in 1..Len(stack) : stack[i].kind = "item" }

\* the marker configuration the list at frame i was given
Configured(i) ==
    IF stack[i].config.t = "undefined" THEN Undefined ELSE stack[i].config.marker

\* a non-empty sequence of strings
IsStringSeq(m) ==
    /\ m.t = "array"
    /\ Len(m.a) > 0
    /\ \A k \in 1..Len(m.a) : m.a[k].t = "string"

\* last element of a non-empty sequence value
Last(m) == m.a[Len(m.a)]

(***************************************************************************)
(* C1: for a non-empty sequence S of strings and a depth d >= len(S), the  *)
(* list broadcasts the last element of S (saturation, no wrap-around).     *)
(***************************************************************************)
C1_Saturation ==
    \A i \in Lists :
        LET S == Configured(i)
            d == stack[i].depth
        IN  (IsStringSeq(S) /\ d >= Len(S.a)) => stack[i].marker = Last(S)

\* a list beyond the end of a two-element sequence, where wrapping around
\* would have chosen another element
C1_Witness ==
    \E i \in Lists :
        LET S == Configured(i)
            d == stack[i].depth
        IN  /\ IsStringSeq(S) /\ d >= Len(S.a) /\ Len(S.a) >= 2
            /\ S.a[(d % Len(S.a)) + 1] # Last(S)
            /\ stack[i].marker = Last(S)

(***************************************************************************)
(* C2: for a non-empty sequence S of strings and 0 <= d < len(S), the list *)
(* broadcasts exactly S[d].                                                *)
(***************************************************************************)
C2_InRange ==
    \A i \in Lists :
        LET S == Configured(i)
            d == stack[i].depth
        IN  (IsStringSeq(S) /\ 0 <= d /\ d < Len(S.a)) =>
                stack[i].marker = S.a[d + 1]

\* a list at depth 1 of a three-element sequence: neither first nor last
C2_Witness ==
    \E i \in Lists :
        LET S == Configured(i)
        IN  /\ IsStringSeq(S) /\ Len(S.a) = 3 /\ stack[i].depth = 1
            /\ stack[i].marker = S.a[2]
            /\ S.a[2] # S.a[1] /\ S.a[2] # S.a[3]

(***************************************************************************)
(* C3: a single-string marker configuration m is broadcast at every depth. *)
(***************************************************************************)
C3_SingleString ==
    \A i \in Lists :
        Configured(i).t = "string" => stack[i].marker = Configured(i)

\* a nested list (depth 2) broadcasting the single string, which is not the
\* default marker
C3_Witness ==
    \E i \in Lists :
        /\ Configured(i).t = "string" /\ stack[i].depth >= 2
        /\ stack[i].marker = Configured(i)
        /\ stack[i].marker # defaultMarker

(***************************************************************************)
(* C4: an empty sequence, or an absent marker configuration (no config, or *)
(* a config without marker), makes the list broadcast defaultMarker at     *)
(* every depth.                                                            *)
(***************************************************************************)
C4_EmptyOrAbsent ==
    \A i \in Lists :
        (Configured(i) = Arr(<<>>) \/ Configured(i) = Undefined) =>
            stack[i].marker = defaultMarker

\* two nested lists given the empty sequence, both broadcasting the default
C4_Witness ==
    \E i \in Lists :
        /\ Configured(i) = Arr(<<>>) /\ stack[i].depth >= 1
        /\ stack[i].marker = defaultMarker
        /\ \E j \in Lists : j < i /\ Configured(j) = Arr(<<>>)
                               /\ stack[j].marker = defaultMarker

\* frames below frame i that establish a depth / a marker
DepthScopes(i) == { j \in 1..(i - 1) : stack[j].kind \in {"list", "depth"} }
MarkerScopes(i) == { j \in 1..(i - 1) : stack[j].kind = "list" }

Max(S) == CHOOSE k \in S : \A l \in S : l <= k
Min(a, b) == IF a <= b THEN a ELSE b

\* frames below frame i that provide a marker, hand-made providers included
MarkerProviders(i) ==
    { j \in 1..(i - 1) : stack[j].kind \in {"list", "marker"} }

\* the marker in scope at frame i
Broadcast(i) ==
    IF MarkerProviders(i) = {} THEN defaultMarker
    ELSE stack[Max(MarkerProviders(i))].marker

\* frame i reads its marker from a list
OwnList(i) ==
    MarkerProviders(i) # {} /\ stack[Max(MarkerProviders(i))].kind = "list"

\* the depth established by the nearest enclosing provider of frame i
Ambient(i) == IF DepthScopes(i) = {} THEN 0 ELSE stack[Max(DepthScopes(i))].next

\* number of UnorderedList ancestors of frame i
Level(i) == Cardinality(MarkerScopes(i))

(***************************************************************************)
(* C5: a list that reads ambient depth d resolves its own marker with d,   *)
(* not d+1, and establishes exactly d+1 for what is nested inside it.      *)
(***************************************************************************)
C5_OwnDepth ==
    \A i \in Lists :
        LET S == Configured(i)
            d == Ambient(i)
        IN  /\ stack[i].depth = d
            /\ stack[i].next = d + 1
            /\ (IsStringSeq(S) /\ d >= 0) =>
                   stack[i].marker = S.a[Min(d, Len(S.a) - 1) + 1]

\* a nested list for which resolving with d+1 would give another marker,
\* with a list nested in it that reads d+1
C5_Witness ==
    \E i \in Lists :
        LET S == Configured(i)
            d == Ambient(i)
        IN  /\ IsStringSeq(S) /\ d >= 1 /\ d + 1 < Len(S.a)
            /\ stack[i].marker = S.a[d + 1]
            /\ S.a[d + 2] # S.a[d + 1]
            /\ \E k \in Lists : k > i /\ Level(k) = Level(i) + 1
                                   /\ stack[k].depth = d + 1

(***************************************************************************)
(* C6: where only lists establish the depth, the depth at which a list     *)
(* resolves is the number of its list ancestors: 0 for a root list, one    *)
(* more than its nearest enclosing list otherwise, never negative.         *)
(***************************************************************************)
C6_DepthIsLevel ==
    \A i \in Lists :
        (\A j \in 1..i : stack[j].kind # "depth") =>
            /\ stack[i].depth = Level(i)
            /\ stack[i].depth >= 0
            /\ MarkerScopes(i) = {} => stack[i].depth = 0
            /\ MarkerScopes(i) # {} =>
                   stack[i].depth = stack[Max(MarkerScopes(i))].depth + 1

\* a list at nesting level 2, reached through items, resolving at depth 2
C6_Witness ==
    \E i \in Lists :
        /\ \A j \in 1..Len(stack) : stack[j].kind # "depth"
        /\ Level(i) = 2 /\ stack[i].depth = 2
        /\ stack[i - 1].kind = "item"
        /\ \E j \in Lists : Level(j) = 0 /\ stack[j].depth = 0

(***************************************************************************)
(* C7: every item of a list (an item that reads its marker from the list)  *)
(* observes the marker that list resolved; a list nested in one of the     *)
(* items, resolving one level deeper, does not alter what the other items  *)
(* of the outer list observe, before or after it.                          *)
(***************************************************************************)
C7_Isolation ==
    \A i \in Items :
        OwnList(i) =>
            LET j == Max(MarkerScopes(i))
            IN  /\ stack[i].marker = stack[j].marker
                /\ stack[j].items = {stack[j].marker}

\* an item rendered after a nested list with another marker was finished,
\* after an earlier item of the same list, now holding such a nested list
C7_Witness ==
    \E i \in Items :
        /\ MarkerScopes(i) # {}
        /\ stack[i].other /\ stack[i].later
        /\ stack[i].marker = stack[Max(MarkerScopes(i))].marker
        /\ \E k \in Lists : k > i /\ stack[k].marker # stack[i].marker
                               /\ stack[k].depth = stack[Max(MarkerScopes(i))].depth + 1

(***************************************************************************)
(* C8: in a chain of nested lists that all see the same non-empty sequence *)
(* S, the items of the list at nesting level i observe S[min(i,len(S)-1)]. *)
(***************************************************************************)
C8_Chain ==
    \A j \in Lists :
        (/\ \A k \in 1..j : stack[k].kind # "depth"
         /\ IsStringSeq(Configured(j))
         /\ \A k \in MarkerScopes(j) : Configured(k) = Configured(j)) =>
            LET S == Configured(j)
            IN  \A m \in stack[j].items :
                    m = S.a[Min(Level(j), Len(S.a) - 1) + 1]

\* a chain of three lists under a two-element sequence whose items have all
\* rendered: levels 0 and 1 saw S[0] and S[1], level 2 saw S[1] again
C8_Witness ==
    \E j0, j1, j2 \in Lists :
        /\ \A k \in 1..Len(stack) : stack[k].kind # "depth"
        /\ Level(j0) = 0 /\ Level(j1) = 1 /\ Level(j2) = 2
        /\ \A k \in {j0, j1} : Configured(k) = Configured(j2)
        /\ LET S == Configured(j2)
           IN  /\ IsStringSeq(S) /\ Len(S.a) = 2 /\ S.a[1] # S.a[2]
               /\ stack[j0].items = {S.a[1]}
               /\ stack[j1].items = {S.a[2]}
               /\ stack[j2].items = {S.a[2]}

(***************************************************************************)
(* C9: a list owns one resolved marker: all the items that are its direct  *)
(* children observe the same marker string, however many they are.         *)
(***************************************************************************)
C9_OneMarker ==
    \A j \in Lists : Cardinality(stack[j].items) <= 1

\* a second item of a list, rendered after a nested list with another
\* marker, observing what the first item observed
C9_Witness ==
    \E i \in Items :
        /\ MarkerScopes(i) # {}
        /\ stack[i].later /\ stack[i].other
        /\ stack[Max(MarkerScopes(i))].items = {stack[i].marker}

(***************************************************************************)
(* C10: a malformed marker configuration (a number, null, an object, or a  *)
(* sequence holding non-string elements) is treated as absent: the list    *)
(* broadcasts defaultMarker.                                               *)
(***************************************************************************)
Malformed(m) ==
    \/ m.t \in {"number", "null", "object"}
    \/ m.t = "array" /\ \E k \in 1..Len(m.a) : m.a[k].t # "string"

C10_MalformedIsAbsent ==
    \A i \in Lists :
        Malformed(Configured(i)) => stack[i].marker = defaultMarker
(***************************************************************************)
(* C11: in every reachable render state, for every ambient depth and every *)
(* configuration the theme layer can hand over, the marker a list          *)
(* broadcasts is a string.                                                 *)
(***************************************************************************)
C11_AlwaysString ==
    \A i \in Lists : stack[i].marker.t = "string"

(***************************************************************************)
(* C12: with no custom theme configuration the default theme's config      *)
(* yields defaultMarker, so the items of a root list and of every nested   *)
(* list observe defaultMarker.                                             *)
(***************************************************************************)
ThemeScopes(i) == { j \in 1..(i - 1) : stack[j].kind = "theme" }

C12_DefaultTheme ==
    \A i \in Lists :
        ThemeScopes(i) = {} =>
            /\ Configured(i) = defaultMarker
            /\ stack[i].marker = defaultMarker
            /\ stack[i].items \subseteq {defaultMarker}

\* a root list and a list two levels below it, no ThemeProvider anywhere,
\* whose items have rendered the default marker
C12_Witness ==
    /\ \A k \in 1..Len(stack) : stack[k].kind # "theme"
    /\ \E i, j \in Lists :
          /\ stack[i].depth = 0 /\ stack[i].items = {defaultMarker}
          /\ stack[j].depth = 2 /\ stack[j].items = {defaultMarker}

(***************************************************************************)
(* Vocabulary of the properties about re-renders.                          *)
(***************************************************************************)
\* the two evaluations on record, when both are renders of one mounted list
Consecutive == Len(evals) = 2 /\ ~evals[2].mount

\* the marker configuration an evaluation's config yields for its props
Yields(e) ==
    IF e.config.t = "undefined" THEN Undefined
    ELSE IF e.config.t = "function" /\ e.props.children = "undefined"
         THEN e.config.alt
    ELSE e.config.marker

\* resolution of a string or a sequence of strings at a depth >= 0
Resolve(d, m) ==
    IF m.t = "string" THEN m
    ELSE IF m.t = "array" /\ Len(m.a) > 0 THEN m.a[Min(d, Len(m.a) - 1) + 1]
    ELSE defaultMarker

(***************************************************************************)
(* C13: when the ambient depth or the marker configuration seen by a list  *)
(* (the marker value its config yields) changes between two renders, the   *)
(* marker broadcast after the later render is the resolution of the new    *)
(* depth and the new configuration, not the value resolved from the        *)
(* earlier inputs.                                                         *)
(***************************************************************************)
C13_ReResolves ==
    (/\ Consecutive
     /\ \/ evals[2].depth # evals[1].depth
        \/ Yields(evals[2]) # Yields(evals[1])) =>
        /\ evals[2].marker = Resolve(evals[2].depth, Yields(evals[2]))
        /\ evals[2].next = evals[2].depth + 1

(***************************************************************************)
(* C14: across two consecutive renders of a list in which neither the      *)
(* ambient depth nor the marker configuration (the marker value its config *)
(* yields) changed, the broadcast marker is unchanged.                     *)
(***************************************************************************)
C14_Stable ==
    (/\ Consecutive
     /\ evals[2].depth = evals[1].depth
     /\ Yields(evals[2]) = Yields(evals[1])) =>
        evals[2].marker = evals[1].marker

(***************************************************************************)
(* C17: two evaluations of a list with the same ambient depth and the same *)
(* marker configuration broadcast the same marker and establish the same   *)
(* next depth, whatever was evaluated before and whatever the children.    *)
(***************************************************************************)
C17_Deterministic ==
    (/\ Len(evals) = 2
     /\ evals[2].depth = evals[1].depth
     /\ Yields(evals[2]) = Yields(evals[1])) =>
        /\ evals[2].marker = evals[1].marker
        /\ evals[2].next = evals[1].next

(***************************************************************************)
(* C15: a list nested inside an item resolves its marker independently,    *)
(* from its own incremented depth and the configuration in scope for it:   *)
(* when the parent's config is the string m and the inner list's is the    *)
(* sequence S, the inner items observe resolve(d+1, S) and the parent's    *)
(* items still observe m.                                                  *)
(***************************************************************************)
\* the marker configuration of the theme in scope at frame i
ScopedMarker(i) ==
    IF ThemeScopes(i) = {} THEN defaultMarker
    ELSE LET c == stack[Max(ThemeScopes(i))].config
         IN  IF c.t = "undefined" THEN Undefined ELSE c.marker

C15_IndependentNested ==
    \A k \in Lists :
        MarkerScopes(k) # {} =>
            LET j == Max(MarkerScopes(k))
                m == ScopedMarker(j)
                S == ScopedMarker(k)
                d == stack[j].depth
            IN  (/\ m.t = "string" /\ IsStringSeq(S) /\ d >= 0
                 /\ \A n \in j..k : stack[n].kind # "depth") =>
                    /\ stack[k].depth = d + 1
                    /\ stack[k].marker = S.a[Min(d + 1, Len(S.a) - 1) + 1]
                    /\ stack[k].items \subseteq {stack[k].marker}
                    /\ stack[j].marker = m
                    /\ stack[j].items \subseteq {m}

\* a list under a string config holding, inside an item rendered after an
\* earlier nested list, a ThemeProvider and a list under a sequence; the
\* items of both have rendered, each its own list's marker
C15_Witness ==
    \E k \in Lists :
        /\ MarkerScopes(k) # {}
        /\ LET j == Max(MarkerScopes(k))
               m == ScopedMarker(j)
               S == ScopedMarker(k)
           IN  /\ m.t = "string" /\ IsStringSeq(S)
               /\ \A n \in j..k : stack[n].kind # "depth"
               /\ \E n \in (j + 1)..(k - 1) : stack[n].kind = "item" /\ stack[n].other
               /\ \E n \in (j + 1)..(k - 1) : stack[n].kind = "theme"
               /\ stack[k].items = {S.a[Min(stack[j].depth + 1, Len(S.a) - 1) + 1]}
               /\ stack[j].items = {m}
               /\ stack[k].marker # m

(***************************************************************************)
(* C16: a list never mutates the depth or marker it received; after a      *)
(* nested list's subtree has been evaluated, later siblings see the        *)
(* ancestor's values unchanged, so lists nested side by side inside the    *)
(* same item all resolve at the same depth d+1.                            *)
(***************************************************************************)
C16_NoMutation ==
    /\ \A i \in 1..Len(stack) : Cardinality(stack[i].nested) <= 1
    /\ \A i \in Lists :
          /\ stack[i].depth = Ambient(i)
          /\ stack[i].nested \subseteq {stack[i].depth + 1}
    /\ \A i \in Items :
          /\ stack[i].nested \subseteq {Ambient(i)}
          /\ stack[i].marker = Broadcast(i)

\* a second list inside an item of a list at depth d, resolving at d+1 as
\* the first one did, which provided d+2 to its own subtree
C16_Witness ==
    \E k \in Lists :
        /\ k > 2 /\ stack[k].later
        /\ stack[k - 1].kind = "item" /\ stack[k - 2].kind = "list"
        /\ stack[k].depth = stack[k - 2].depth + 1
        /\ stack[k - 1].nested = {stack[k].depth}
        /\ stack[k - 2].nested = {stack[k].depth}
        /\ stack[k].next = stack[k].depth + 1

(***************************************************************************)
(* C18 (as stated): a root UnorderedList creates its UnorderedListContext  *)
(* Provider with depth 0.                                                  *)
(***************************************************************************)
C18_RootProvidesZero ==
    \A i \in Lists : DepthScopes(i) = {} => stack[i].next = 0

(***************************************************************************)
(* C18 (amended): a root UnorderedList, with no depth provider above it,   *)
(* reads depth 0 and creates its UnorderedListContext Provider with        *)
(* depth 1.                                                                *)
(***************************************************************************)
C18_RootProvidesOne ==
    \A i \in Lists :
        DepthScopes(i) = {} => stack[i].depth = 0 /\ stack[i].next = 1

\* a root list whose nested list has read depth 1 from it
C18_Witness ==
    \E i, k \in Lists :
        /\ DepthScopes(i) = {} /\ stack[i].next = 1
        /\ DepthScopes(k) = {i} /\ stack[k].depth = 1

(***************************************************************************)
(* C19: the marker an item renders is exactly the value of its nearest     *)
(* enclosing marker provider; a change of the ambient depth alone does not *)
(* change what the item renders.                                           *)
(***************************************************************************)
C19_ItemsReadMarkerOnly ==
    \A i \in Items : stack[i].marker = Broadcast(i)

\* an item separated from its list by a hand-made depth provider: the
\* ambient depth at the item is not the one its list established, and the
\* list's sequence holds another marker for it, yet the item renders the
\* list's marker
C19_Witness ==
    \E i \in Items :
        /\ MarkerScopes(i) # {}
        /\ LET j == Max(MarkerScopes(i))
               S == Configured(j)
           IN  /\ \E k \in (j + 1)..(i - 1) : stack[k].kind = "depth"
               /\ Ambient(i) # stack[j].next
               /\ IsStringSeq(S) /\ 0 <= Ambient(i) /\ Ambient(i) < Len(S.a)
               /\ S.a[Ambient(i) + 1] # stack[j].marker
               /\ stack[i].marker = stack[j].marker

(***************************************************************************)
(* C20: an item with no UnorderedList ancestor and no other marker         *)
(* provider above it observes defaultMarker, and a list with no depth      *)
(* provider above it observes depth 0.                                     *)
(***************************************************************************)
C20_Defaults ==
    /\ \A i \in Items : MarkerProviders(i) = {} => stack[i].marker = defaultMarker
    /\ \A i \in Lists : DepthScopes(i) = {} => stack[i].depth = 0

\* an item outside any list, below a ThemeProvider with another marker,
\* rendering the default marker, and a list inside it reading depth 0
C20_Witness ==
    \E i \in Items, k \in Lists :
        /\ MarkerProviders(i) = {} /\ stack[i].marker = defaultMarker
        /\ ThemeScopes(i) # {}
        /\ i < k /\ DepthScopes(k) = {} /\ stack[k].depth = 0
        /\ stack[k].marker # defaultMarker

(***************************************************************************)
(* C21: a list evaluated under a hand-made depth provider of value k       *)
(* resolves its marker at exactly k and establishes k+1; every list below  *)
(* resolves at k plus the number of lists between it and the provider, so  *)
(* that nesting level and depth differ by the injected offset.             *)
(***************************************************************************)
\* hand-made depth providers below frame i
Injections(i) == { j \in 1..(i - 1) : stack[j].kind = "depth" }

\* lists strictly between frames j and i
Between(j, i) == { l \in MarkerScopes(i) : l > j }

C21_InjectedDepth ==
    \A i \in Lists :
        Injections(i) # {} =>
            LET j == Max(Injections(i))
                k == stack[j].next
                S == Configured(i)
            IN  /\ stack[i].depth = k + Cardinality(Between(j, i))
                /\ stack[i].next = stack[i].depth + 1
                /\ stack[i].depth - Level(i) = k - Level(j)
                /\ (Between(j, i) = {} /\ IsStringSeq(S) /\ k >= 0) =>
                       stack[i].marker = S.a[Min(k, Len(S.a) - 1) + 1]

\* depth 2 injected above every list: the outermost list resolves the third
\* element of its sequence and the list inside it reads depth 3
C21_Witness ==
    \E i, n \in Lists :
        /\ Injections(i) # {} /\ MarkerScopes(i) = {}
        /\ stack[Max(Injections(i))].next = 2
        /\ LET S == Configured(i)
           IN  /\ IsStringSeq(S) /\ Len(S.a) = 3
               /\ stack[i].marker = S.a[3] /\ S.a[3] # S.a[1]
        /\ stack[i].depth = 2 /\ stack[i].next = 3
        /\ MarkerScopes(n) = {i} /\ stack[n].depth = 3

(***************************************************************************)
(* C22: for a non-empty sequence S of strings and a negative depth, the    *)
(* list broadcasts the last element of S, as for depths beyond the end,    *)
(* and never defaultMarker.                                                *)
(***************************************************************************)
C22_NegativeDepth ==
    \A i \in Lists :
        LET S == Configured(i)
        IN  (IsStringSeq(S) /\ stack[i].depth < 0) =>
                /\ stack[i].marker = Last(S)
                /\ stack[i].marker # defaultMarker

\* a list at depth -1 under a sequence of several elements, broadcasting
\* the last one and not the first
C22_Witness ==
    \E i \in Lists :
        LET S == Configured(i)
        IN  /\ IsStringSeq(S) /\ Len(S.a) >= 2 /\ stack[i].depth = -1
            /\ stack[i].marker = Last(S)
            /\ Last(S) # S.a[1]

(***************************************************************************)
(* C23 (as stated): only lists change the ambient depth: a list separated  *)
(* from its nearest enclosing list by any number of items or other         *)
(* non-list nodes resolves at that list's depth plus 1.                    *)
(***************************************************************************)
C23_AnyNodesBetween ==
    \A k \in Lists :
        MarkerScopes(k) # {} =>
            stack[k].depth = stack[Max(MarkerScopes(k))].depth + 1

(***************************************************************************)
(* C23 (amended): only lists and hand-made depth providers change the      *)
(* ambient depth: a list separated from its nearest enclosing list by any  *)
(* number of items or other nodes, none of them a hand-made depth          *)
(* provider, resolves at that list's depth plus 1.                         *)
(***************************************************************************)
C23_OnlyListsIncrement ==
    \A k \in Lists :
        MarkerScopes(k) # {} =>
            LET j == Max(MarkerScopes(k))
            IN  (\A n \in j..k : stack[n].kind # "depth") =>
                    stack[k].depth = stack[j].depth + 1

\* a list reached from its enclosing list through two items and a
\* ThemeProvider
C23_Witness ==
    \E k \in Lists :
        /\ MarkerScopes(k) # {}
        /\ LET j == Max(MarkerScopes(k))
           IN  /\ Cardinality({ n \in (j + 1)..(k - 1) : stack[n].kind = "item" }) >= 2
               /\ \E n \in (j + 1)..(k - 1) : stack[n].kind = "theme"
               /\ stack[k].depth = stack[j].depth + 1

(***************************************************************************)
(* C24 (as stated): the marker of a list reaches every item below it that  *)
(* no other list separates from it.                                        *)
(***************************************************************************)
C24_ReachesSubtree ==
    \A i \in Items :
        MarkerScopes(i) # {} =>
            stack[i].marker = stack[Max(MarkerScopes(i))].marker

(***************************************************************************)
(* C24 (amended): the marker of a list reaches every item below it that    *)
(* neither another list nor a hand-made marker provider separates from it; *)
(* an item directly inside another item observes the marker the outer item *)
(* observes.                                                               *)
(***************************************************************************)
C24_ItemInItem ==
    \A i \in Items :
        /\ OwnList(i) => stack[i].marker = stack[Max(MarkerScopes(i))].marker
        /\ (i > 1 /\ stack[i - 1].kind = "item") =>
               stack[i].marker = stack[i - 1].marker

\* an item inside an item of a nested list whose marker is neither the
\* default one nor the outer list's
C24_Witness ==
    \E i \in Items :
        /\ i > 2 /\ stack[i - 1].kind = "item" /\ stack[i - 2].kind = "list"
        /\ stack[i - 2].depth >= 1
        /\ stack[i].marker = stack[i - 2].marker
        /\ stack[i].marker # defaultMarker
        /\ \E j \in MarkerScopes(i - 2) : stack[j].marker # stack[i].marker

(***************************************************************************)
(* C25: for a sequence whose element at the in-range index d is null or    *)
(* undefined, the list broadcasts the last element of the sequence, or     *)
(* defaultMarker when the last element is null or undefined too; any other *)
(* in-range element, the empty string included, is broadcast as it is.     *)
(***************************************************************************)
C25_NullishElement ==
    \A i \in Lists :
        LET S == Configured(i)
            d == stack[i].depth
        IN  (IsArray(S) /\ 0 <= d /\ d < Len(S.a)) =>
                IF Nullish(S.a[d + 1])
                THEN stack[i].marker = IF Nullish(Last(S)) THEN defaultMarker
                                       ELSE Last(S)
                ELSE stack[i].marker = S.a[d + 1]

\* a list whose sequence holds undefined at its depth and a string last,
\* broadcasting that string
C25_Witness ==
    \E i \in Lists :
        LET S == Configured(i)
            d == stack[i].depth
        IN  /\ IsArray(S) /\ 0 <= d /\ d < Len(S.a)
            /\ Nullish(S.a[d + 1]) /\ ~Nullish(Last(S))
            /\ stack[i].marker = Last(S)
            /\ stack[i].marker # defaultMarker

(***************************************************************************)
(* C26: the empty string is a valid single-string configuration: the list  *)
(* broadcasts "" at every depth and does not fall back to defaultMarker.   *)
(***************************************************************************)
C26_EmptyString ==
    \A i \in Lists :
        Configured(i) = Str("") =>
            /\ stack[i].marker = Str("")
            /\ stack[i].items \subseteq {Str("")}

\* two nested lists configured with "", the inner one with an item that
\* rendered ""
C26_Witness ==
    \E i, j \in Lists :
        /\ j < i /\ Configured(j) = Str("") /\ Configured(i) = Str("")
        /\ stack[j].marker = Str("") /\ stack[i].depth >= 1
        /\ stack[i].items = {Str("")}

(***************************************************************************)
(* C27: the depth a list establishes is d+1 whatever its marker            *)
(* configuration is; a list two levels below a list with a single-string   *)
(* config resolves a sequence config at that list's depth plus 2.          *)
(***************************************************************************)
C27_DepthIgnoresConfig ==
    /\ \A i \in Lists :
          /\ stack[i].next = stack[i].depth + 1
          /\ stack[i].nested \subseteq {stack[i].depth + 1}
    /\ \A k \in Lists : \A j \in MarkerScopes(k) :
          LET S == Configured(k)
              d == stack[j].depth
          IN  (/\ Cardinality(Between(j, k)) = 1
               /\ Configured(j).t = "string" /\ IsStringSeq(S) /\ d >= 0
               /\ \A n \in j..k : stack[n].kind # "depth") =>
                  /\ stack[k].depth = d + 2
                  /\ stack[k].marker = S.a[Min(d + 2, Len(S.a) - 1) + 1]

\* a list under a three-element sequence, two levels below a root list with
\* a single-string config, broadcasting the third element
C27_Witness ==
    \E k \in Lists : \E j \in MarkerScopes(k) :
        LET S == Configured(k)
        IN  /\ Cardinality(Between(j, k)) = 1
            /\ Configured(j).t = "string" /\ stack[j].depth = 0
            /\ stack[j].nested = {1}
            /\ IsStringSeq(S) /\ Len(S.a) = 3
            /\ stack[k].depth = 2
            /\ stack[k].marker = S.a[3] /\ S.a[3] # S.a[2]

(***************************************************************************)
(* C28: after any sequence of re-renders of a list, the marker it          *)
(* broadcasts is the marker freshly resolved from its current inputs: the  *)
(* ambient depth and the marker its config yields for the current props.   *)
(***************************************************************************)
C28_Fresh ==
    \A n \in 1..Len(evals) :
        evals[n].marker = Resolve(evals[n].depth, Yields(evals[n]))

(***************************************************************************)
(* C29: a config supplied as a function is called with the list's props    *)
(* and its result is used, a config supplied as a plain object is used     *)
(* directly: a function whose result for the list's props is the marker    *)
(* value of a plain object broadcasts, at the same depth, the marker the   *)
(* plain object broadcasts.                                                *)
(***************************************************************************)
C29_BothForms ==
    \A m, n \in 1..Len(evals) :
        (/\ evals[m].config.t = "function"
         /\ evals[n].config.t = "object"
         /\ evals[m].depth = evals[n].depth
         /\ Yields(evals[m]) = evals[n].config.marker) =>
            evals[m].marker = evals[n].marker
====
